---- MODULE Spec2Model ----
(***************************************************************************)
(* Model of the nx front-end: the tokenizer of src/nx/src/lexer/lex.rs and *)
(* the parser of src/nx/src/parser/parse.rs.                               *)
(*                                                                         *)
(* Source text is a sequence of one-character strings.  Only ASCII text is *)
(* modelled, so a byte offset and a character index are the same number.   *)
(* A Rust slice &s[a..b] is SubSeq(s, a + 1, b); a slice whose range lies  *)
(* outside the text is a fault (panic) of the call.                        *)
(***************************************************************************)
EXTENDS Integers, Sequences, FiniteSets, TLC

(***************************************************************************)
(* Bounds of the model.                                                    *)
(***************************************************************************)
\* Longest source text enumerated exhaustively over Alphabet.
MaxLen == 3
\* Longest token sequence handed directly to parse_token.
MaxTokens == 4

(***************************************************************************)
(* Characters.                                                             *)
(***************************************************************************)
Digits == {"0", "1", "2", "3", "4", "5", "6", "7", "8", "9"}

LowerCase == {"a", "b", "c", "d", "e", "f", "g", "h", "i", "j", "k", "l", "m",
              "n", "o", "p", "q", "r", "s", "t", "u", "v", "w", "x", "y", "z"}

UpperCase == {"A", "B", "C", "D", "E", "F", "G", "H", "I", "J", "K", "L", "M",
              "N", "O", "P", "Q", "R", "S", "T", "U", "V", "W", "X", "Y", "Z"}

\* lex.rs:237, the characters truncate_leading_whitespace skips.
character_is_whitespace(c) == c \in {" ", "\t", "\n"}

\* lex.rs:259-268
character_is_delimiter(c) == c \notin (Digits \cup LowerCase \cup UpperCase \cup {"_"})

\* lex.rs:270-277
character_is_integer(c) == c \in (Digits \cup {"_"})

\* lex.rs:279-288
character_is_identifier(c) == c \in (Digits \cup LowerCase \cup UpperCase \cup {"_"})

(***************************************************************************)
(* Iterator helpers of the Rust standard library, as the code uses them.   *)
(***************************************************************************)
\* Option::None of Iterator::position.
NotFound == -1

\* iter.position(..) over such truth values: the 0-based index of the first
\* TRUE, NotFound when there is none.
Position(matches) ==
    IF \E i \in 1..Len(matches) : matches[i]
    THEN (CHOOSE i \in 1..Len(matches) :
              matches[i] /\ \A j \in 1..(i - 1) : ~matches[j]) - 1
    ELSE NotFound

\* |c| c != ' ' && c != '\t' && c != '\n' over the characters of s (lex.rs:237).
NonWhitespace(s) == [i \in 1..Len(s) |-> ~character_is_whitespace(s[i])]

\* character_is_delimiter over the characters of s (lex.rs:247).
Delimiters(s) == [i \in 1..Len(s) |-> character_is_delimiter(s[i])]

\* |c| c == '\n' over the characters of s (lex.rs:95, 111).
Newlines(s) == [i \in 1..Len(s) |-> s[i] = "\n"]

\* Option::unwrap_or
unwrap_or(opt, default) == IF opt = NotFound THEN default ELSE opt

\* &s[from..], defined for from <= Len(s).
SliceFrom(s, from) == SubSeq(s, from + 1, Len(s))

\* &s[0..to], defined for to <= Len(s).
SliceTo(s, to) == SubSeq(s, 1, to)

\* code.chars().filter(|&c| c == '\n').count()
CountNewlines(s) == Cardinality({i \in 1..Len(s) : s[i] = "\n"})

(***************************************************************************)
(* Tokens (token.rs).                                                      *)
(***************************************************************************)
\* SourceSpan::new
SourceSpan(start_index, end_index) == [start |-> start_index, end |-> end_index]

\* A token variant that carries (SourceSpan, &str).
Token(kind, span, word) == [kind |-> kind, span |-> span, lexeme |-> word]

\* Token::None, the unclassified sentinel; it carries nothing.
TokenNone == [kind |-> "None"]

is_none(token) == token.kind = "None"

\* The match of tokenize_next_word: word => Token variant.
ReservedWords ==
    {<<<<";">>, "Semicolon">>,
       <<<<":">>, "Colon">>,
       <<<<",">>, "Comma">>,
       <<<<".">>, "Dot">>,
       <<<<"=">>, "Equal">>,
       <<<<"+">>, "Plus">>,
       <<<<"-">>, "Minus">>,
       <<<<"*">>, "Star">>,
       <<<<"/">>, "Slash">>,
       <<<<"(">>, "LParenthesis">>,
       <<<<")">>, "RParenthesis">>,
       <<<<"[">>, "LBracket">>,
       <<<<"]">>, "RBracket">>,
       <<<<"<">>, "LAngle">>,
       <<<<">">>, "RAngle">>,
       <<<<"{">>, "LBrace">>,
       <<<<"}">>, "RBrace">>,
       <<<<"!">>, "Exclamation">>,
       <<<<"?">>, "Question">>,
       <<<<"$">>, "Dollar">>,
       <<<<"#">>, "Hash">>,
       <<<<"u", "s", "e">>, "Use">>,
       <<<<"l", "e", "t">>, "Let">>,
       <<<<"v", "a", "r">>, "Var">>,
       <<<<"a", "s">>, "As">>,
       <<<<"i", "n">>, "In">>,
       <<<<"r", "e", "t", "u", "r", "n">>, "Return">>,
       <<<<"b", "r", "e", "a", "k">>, "Break">>,
       <<<<"c", "o", "n", "t", "i", "n", "u", "e">>, "Continue">>,
       <<<<"m", "a", "c", "r", "o">>, "Macro">>,
       <<<<"m", "o", "d", "u", "l", "e">>, "Module">>,
       <<<<"f", "n">>, "Fn">>,
       <<<<"s", "t", "r", "u", "c", "t">>, "Struct">>,
       <<<<"e", "n", "u", "m">>, "Enum">>,
       <<<<"i", "n", "s", "t", "a", "n", "c", "e">>, "Instance">>,
       <<<<"i", "m", "p", "l", "e", "m", "e", "n", "t">>, "Implement">>,
       <<<<"m", "a", "t", "c", "h">>, "Match">>,
       <<<<"i", "f">>, "If">>,
       <<<<"e", "l", "s", "e">>, "Else">>,
       <<<<"f", "o", "r">>, "For">>,
       <<<<"w", "h", "i", "l", "e">>, "While">>,
       <<<<"l", "o", "o", "p">>, "Loop">>,
       <<<<"(", ")">>, "Unit">>,
       <<<<"u", "s", "i", "z", "e">>, "Usize">>,
       <<<<"i", "n", "t">>, "Int">>,
       <<<<"f", "l", "t">>, "Flt">>,
       <<<<"s", "t", "r">>, "Str">>,
       <<<<"i", "8">>, "I8">>,
       <<<<"u", "8">>, "U8">>,
       <<<<"i", "1", "6">>, "I16">>,
       <<<<"u", "1", "6">>, "U16">>,
       <<<<"i", "3", "2">>, "I32">>,
       <<<<"u", "3", "2">>, "U32">>,
       <<<<"i", "6", "4">>, "I64">>,
       <<<<"u", "6", "4">>, "U64">>,
       <<<<"f", "3", "2">>, "F32">>,
       <<<<"f", "6", "4">>, "F64">>}

\* The reserved words listed in the match, as written there.
ReservedWordSet == {e[1] : e \in ReservedWords}

\* lex.rs:122-192: an exact match of the whole word, the sentinel otherwise.
tokenize_reserved_word(word, span) ==
    IF \E e \in ReservedWords : e[1] = word
    THEN Token((CHOOSE e \in ReservedWords : e[1] = word)[2], span, word)
    ELSE TokenNone

\* Mutant of tokenize_integer_value: the test of the first character is missing.
tokenize_integer_value_any_first(token, word, span) ==
    IF is_none(token)
    THEN IF \A i \in 1..Len(word) : character_is_integer(word[i])
         THEN Token("IntVal", span, word)
         ELSE TokenNone
    ELSE token

\* lex.rs:201-212: the integer test, applied to a token still unclassified.
tokenize_integer_value(token, word, span) ==
    IF is_none(token)
    THEN IF word[1] # "_" /\ \A i \in 1..Len(word) : character_is_integer(word[i])
         THEN Token("IntVal", span, word)
         ELSE TokenNone
    ELSE token

\* lex.rs:219-230: the identifier test, applied to a token still unclassified.
tokenize_identifier(token, word, span) ==
    IF is_none(token)
    THEN IF \A i \in 1..Len(word) : character_is_identifier(word[i])
         THEN Token("IdxVal", span, word)
         ELSE TokenNone
    ELSE token

\* Mutant of classify_word: the identifier test runs before the match of the
\* reserved words.
classify_word_identifier_first(word, span) ==
    LET token == tokenize_identifier(TokenNone, word, span)
    IN  IF is_none(token)
        THEN tokenize_integer_value(tokenize_reserved_word(word, span), word, span)
        ELSE token

\* lex.rs:121-230: reserved word first, then integer, then identifier.
classify_word(word, span) ==
    tokenize_identifier(
        tokenize_integer_value(tokenize_reserved_word(word, span), word, span),
        word, span)

\* Mutant of truncate_leading_whitespace: the skipped whitespace is not
\* added to the offset.
truncate_leading_whitespace_keeps_index(code, code_index) ==
    LET next_non_whitespace_character_index ==
            unwrap_or(Position(NonWhitespace(code)), 0)
    IN  [code  |-> SliceFrom(code, next_non_whitespace_character_index),
         index |-> code_index]

\* lex.rs:234-242
truncate_leading_whitespace(code, code_index) ==
    LET next_non_whitespace_character_index ==
            unwrap_or(Position(NonWhitespace(code)), 0)
    IN  [code  |-> SliceFrom(code, next_non_whitespace_character_index),
         index |-> code_index + next_non_whitespace_character_index]

\* Mutant of search_next_word: a run of delimiter characters other than
\* whitespace is taken as one word (multi-character delimiters).
search_next_word_delimiter_run(code, code_index) ==
    LET next_delimiter_character_index ==
            unwrap_or(Position(Delimiters(code)), Len(code))
        current_character_is_delimiter == next_delimiter_character_index = 0
        run_end == unwrap_or(Position([i \in 1..Len(code) |->
                                          ~character_is_delimiter(code[i])
                                          \/ character_is_whitespace(code[i])]),
                             Len(code))
        word_len == IF current_character_is_delimiter
                    THEN IF run_end = 0 THEN 1 ELSE run_end
                    ELSE next_delimiter_character_index
    IN  IF word_len > Len(code)
        THEN [panic |-> TRUE]
        ELSE [panic |-> FALSE,
              word  |-> SliceTo(code, word_len),
              rest  |-> SliceFrom(code, word_len),
              index |-> code_index + word_len]

\* lex.rs:244-257.  &code[0..1] on an empty text is out of range: the call
\* faults, which the result records as panic.
search_next_word(code, code_index) ==
    LET next_delimiter_character_index ==
            unwrap_or(Position(Delimiters(code)), Len(code))
        current_character_is_delimiter == next_delimiter_character_index = 0
        word_len == IF current_character_is_delimiter
                    THEN 1
                    ELSE next_delimiter_character_index
    IN  IF word_len > Len(code)
        THEN [panic |-> TRUE]
        ELSE [panic |-> FALSE,
              word  |-> SliceTo(code, word_len),
              rest  |-> SliceFrom(code, word_len),
              index |-> code_index + word_len]

\* The outcome of a call of tokenize_next_word that returns.
Returned(token, remaining_code, new_code_index) ==
    [panic |-> FALSE, token |-> token,
     remaining_code |-> remaining_code, new_code_index |-> new_code_index]

\* The outcome of a call that faults.
Panicked == [panic |-> TRUE]

\* lex.rs:93-101 and 109-117: the comment of num_slashes slashes runs to the
\* next newline of remaining_code, the text after the slashes.
tokenize_comment(kind, num_slashes, code, code_index, remaining_code) ==
    LET next_newline_index ==
            unwrap_or(Position(Newlines(remaining_code)), Len(remaining_code))
        comment_len == next_newline_index + num_slashes
    IN  IF next_newline_index > Len(remaining_code) \/ comment_len > Len(code)
        THEN Panicked
        ELSE LET comment == SliceTo(code, comment_len)
                 span == SourceSpan(code_index, code_index + Len(comment))
             IN  Returned(Token(kind, span, comment),
                          SliceFrom(remaining_code, next_newline_index),
                          span.end)

\* Mutant of tokenize_word: the text is returned with the word still in it.
tokenize_word_keeps_code(word, span, remaining_code) ==
    Returned(classify_word(word, span), word \o remaining_code, span.start)

\* lex.rs:121-230 and 290: the word is classified and the text after it remains.
tokenize_word(word, span, remaining_code) ==
    Returned(classify_word(word, span), remaining_code, span.end)

\* lex.rs:105-119 and on: the word is "/"; a second "/" makes it a comment.
tokenize_slash_comment(code, code_index, word, span, remaining_code, new_index) ==
    LET next == search_next_word(remaining_code, new_index)
    IN  IF next.panic
        THEN Panicked
        ELSE IF next.word = <<"/">>
             THEN tokenize_comment("Comment", 2, code, code_index, next.rest)
             ELSE tokenize_word(word, span, remaining_code)

\* lex.rs:88-103 and on: the word is "/"; the next two words are looked at.
tokenize_slash(code, code_index, word, span, remaining_code, new_index) ==
    LET next_1 == search_next_word(remaining_code, new_index)
    IN  IF next_1.panic
        THEN Panicked
        ELSE LET next_2 == search_next_word(next_1.rest, next_1.index)
             IN  IF next_2.panic
                 THEN Panicked
                 ELSE IF next_1.word = <<"/">> /\ next_2.word = <<"/">>
                      THEN tokenize_comment("Documentation", 3, code, code_index,
                                            next_2.rest)
                      ELSE tokenize_slash_comment(code, code_index, word, span,
                                                  remaining_code, new_index)

\* lex.rs:82-291
tokenize_next_word(code_in, code_index_in) ==
    LET t == truncate_leading_whitespace(code_in, code_index_in)
        code == t.code
        code_index == t.index
        w == search_next_word(code, code_index)
    IN  IF w.panic
        THEN Panicked
        ELSE LET span == SourceSpan(code_index, code_index + Len(w.word))
             IN  IF w.word = <<"/">>
                 THEN tokenize_slash(code, code_index, w.word, span, w.rest, w.index)
                 ELSE tokenize_word(w.word, span, w.rest)

(***************************************************************************)
(* AST nodes (ast.rs).                                                     *)
(***************************************************************************)
\* SourceSpan::default()
DefaultSpan == [start |-> 0, end |-> 0]

\* AstNodeData { span, type_ }; AstNodeType has the one variant None.
AstNodeData(span) == [span |-> span, type_ |-> "None"]

\* A node variant that wraps AstNodeData.
AstNode(kind, data) == [node |-> kind, data |-> data]

\* AstNode::None, the placeholder; it carries nothing.
AstNodeNone == [node |-> "None"]

(***************************************************************************)
(* The parser's routines (parse.rs).  Each returns the grown buffer and    *)
(* the next token index, or faults.  token_index is 0-based as in the      *)
(* code; tokens[token_index + 1] is tokens.get(token_index).               *)
(***************************************************************************)
Parsed(ast, next_token_index) ==
    [panic |-> FALSE, ast |-> ast, next_token_index |-> next_token_index]

\* parse.rs:77-86
parse_visibility(ast, tokens, token_index) ==
    Parsed(Append(ast, AstNode("Invisible", AstNodeData(DefaultSpan))), token_index + 1)

\* Mutant of parse_identifier: the Identifier node is built with the default
\* data instead of the span of the token.
parse_identifier_default_span(ast, tokens, token_index) ==
    IF token_index >= Len(tokens)
    THEN Panicked
    ELSE LET identifier_token == tokens[token_index + 1]
         IN  IF identifier_token.kind # "IdxVal"
             THEN Panicked
             ELSE Parsed(Append(ast, AstNode("Identifier", AstNodeData(DefaultSpan))),
                         token_index + 1)

\* Mutant of parse_identifier: the token is not required to be an IdxVal.
parse_identifier_any_token(ast, tokens, token_index) ==
    IF token_index >= Len(tokens)
    THEN Panicked
    ELSE Parsed(Append(ast, AstNode("Identifier",
                                    AstNodeData(tokens[token_index + 1].span))),
                token_index + 1)

\* parse.rs:88-102: both unwraps fault, the first past the end of the tokens,
\* the second on a token that is not an IdxVal.
parse_identifier(ast, tokens, token_index) ==
    IF token_index >= Len(tokens)
    THEN Panicked
    ELSE LET identifier_token == tokens[token_index + 1]
         IN  IF identifier_token.kind # "IdxVal"
             THEN Panicked
             ELSE Parsed(Append(ast, AstNode("Identifier",
                                             AstNodeData(identifier_token.span))),
                         token_index + 1)

\* Mutant of parse_argument: the routine consumes a token.
parse_argument_consumes_token(ast, tokens, token_index) ==
    Parsed(Append(ast, AstNodeNone), token_index + 1)

\* parse.rs:104-111
parse_argument(ast, tokens, token_index) == Parsed(Append(ast, AstNodeNone), token_index)

\* parse.rs:113-120
parse_type(ast, tokens, token_index) == Parsed(Append(ast, AstNodeNone), token_index)

\* parse.rs:122-129
parse_block(ast, tokens, token_index) == Parsed(Append(ast, AstNodeNone), token_index)

\* Mutant of parse_function: the EndFunction node is not pushed.
parse_function_without_end(ast_in, tokens, token_index) ==
    LET ast0 == Append(ast_in, AstNode("StartFunction", AstNodeData(DefaultSpan)))
        r1 == parse_visibility(ast0, tokens, token_index)
        r2 == parse_identifier(r1.ast, tokens, r1.next_token_index)
    IN  IF r2.panic
        THEN Panicked
        ELSE LET r3 == parse_argument(r2.ast, tokens, r2.next_token_index)
                 r4 == parse_type(r3.ast, tokens, r3.next_token_index)
                 r5 == parse_block(r4.ast, tokens, r4.next_token_index)
             IN  Parsed(r5.ast, r5.next_token_index)

\* parse.rs:54-75.  A `?` passes an Err on; no routine returns one, and a
\* fault of a routine is a fault of parse_function.
parse_function(ast_in, tokens, token_index) ==
    LET ast0 == Append(ast_in, AstNode("StartFunction", AstNodeData(DefaultSpan)))
        r1 == parse_visibility(ast0, tokens, token_index)
        r2 == parse_identifier(r1.ast, tokens, r1.next_token_index)
    IN  IF r2.panic
        THEN Panicked
        ELSE LET r3 == parse_argument(r2.ast, tokens, r2.next_token_index)
                 r4 == parse_type(r3.ast, tokens, r3.next_token_index)
                 r5 == parse_block(r4.ast, tokens, r4.next_token_index)
             IN  Parsed(Append(r5.ast, AstNode("EndFunction", AstNodeData(DefaultSpan))),
                        r5.next_token_index)

(***************************************************************************)
(* Source texts.                                                           *)
(***************************************************************************)
\* lex.rs:299: 'fn main() { }'
test_a ==
    <<"f", "n", " ", "m", "a", "i", "n", "(", ")", " ", "{", " ", "}">>

\* lex.rs:300: 'fn main() int { return 0; }'
test_b ==
    <<"f", "n", " ", "m", "a", "i", "n", "(", ")", " ", "i", "n", "t", " ",
      "{", " ", "r", "e", "t", "u", "r", "n", " ", "0", ";", " ", "}">>

\* lex.rs:301: 'fn main() int { let x = 0; return x; }'
test_c ==
    <<"f", "n", " ", "m", "a", "i", "n", "(", ")", " ", "i", "n", "t", " ",
      "{", " ", "l", "e", "t", " ", "x", " ", "=", " ", "0", ";", " ", "r",
      "e", "t", "u", "r", "n", " ", "x", ";", " ", "}">>

\* lex.rs:302: 'fn main() int { let x:int = 0; return x; }'
test_d ==
    <<"f", "n", " ", "m", "a", "i", "n", "(", ")", " ", "i", "n", "t", " ",
      "{", " ", "l", "e", "t", " ", "x", ":", "i", "n", "t", " ", "=", " ",
      "0", ";", " ", "r", "e", "t", "u", "r", "n", " ", "x", ";", " ", "}">>

\* lex.rs:303: 'fn main() int {\n 0\n}'
test_e ==
    <<"f", "n", " ", "m", "a", "i", "n", "(", ")", " ", "i", "n", "t", " ",
      "{", "\n", " ", "0", "\n", "}">>

\* lex.rs:304: 'fn main() int {\n let x = 0\n x\n}'
test_f ==
    <<"f", "n", " ", "m", "a", "i", "n", "(", ")", " ", "i", "n", "t", " ",
      "{", "\n", " ", "l", "e", "t", " ", "x", " ", "=", " ", "0", "\n",
      " ", "x", "\n", "}">>

\* lex.rs:305: 'fn main() int {\n let x:int = 0\n x\n}'
test_g ==
    <<"f", "n", " ", "m", "a", "i", "n", "(", ")", " ", "i", "n", "t", " ",
      "{", "\n", " ", "l", "e", "t", " ", "x", ":", "i", "n", "t", " ",
      "=", " ", "0", "\n", " ", "x", "\n", "}">>

\* lex.rs:306: '/// this is a documentation comment\n fn main() {}'
test_h ==
    <<"/", "/", "/", " ", "t", "h", "i", "s", " ", "i", "s", " ", "a", " ",
      "d", "o", "c", "u", "m", "e", "n", "t", "a", "t", "i", "o", "n", " ",
      "c", "o", "m", "m", "e", "n", "t", "\n", " ", "f", "n", " ", "m",
      "a", "i", "n", "(", ")", " ", "{", "}">>

\* lex.rs:307: '// this is a comment\n fn main() {}'
test_i ==
    <<"/", "/", " ", "t", "h", "i", "s", " ", "i", "s", " ", "a", " ", "c",
      "o", "m", "m", "e", "n", "t", "\n", " ", "f", "n", " ", "m", "a",
      "i", "n", "(", ")", " ", "{", "}">>

\* lex.rs:308: '// this is a comment /// with a nested comment\n fn main() {}'
test_j ==
    <<"/", "/", " ", "t", "h", "i", "s", " ", "i", "s", " ", "a", " ", "c",
      "o", "m", "m", "e", "n", "t", " ", "/", "/", "/", " ", "w", "i", "t",
      "h", " ", "a", " ", "n", "e", "s", "t", "e", "d", " ", "c", "o", "m",
      "m", "e", "n", "t", "\n", " ", "f", "n", " ", "m", "a", "i", "n",
      "(", ")", " ", "{", "}">>

\* lex.rs:309: '0 _ _0 0_ 000_000_000'
test_k ==
    <<"0", " ", "_", " ", "_", "0", " ", "0", "_", " ", "0", "0", "0", "_",
      "0", "0", "0", "_", "0", "0", "0">>

\* lex.rs:310: '123_456_789'
test_l ==
    <<"1", "2", "3", "_", "4", "5", "6", "_", "7", "8", "9">>

\* parse.rs:139: '/// Returns zero\n fn zero() int { let x = 0; return x; }'
test_xb ==
    <<"/", "/", "/", " ", "R", "e", "t", "u", "r", "n", "s", " ", "z", "e",
      "r", "o", "\n", " ", "f", "n", " ", "z", "e", "r", "o", "(", ")",
      " ", "i", "n", "t", " ", "{", " ", "l", "e", "t", " ", "x", " ", "=",
      " ", "0", ";", " ", "r", "e", "t", "u", "r", "n", " ", "x", ";", " ",
      "}">>

\* benches/lexer.rs:6: 'fn module struct ;:,.-/ +**# return let x+y var 99 instance use ()[]{} // comment'
bench_code ==
    <<"f", "n", " ", "m", "o", "d", "u", "l", "e", " ", "s", "t", "r", "u",
      "c", "t", " ", ";", ":", ",", ".", "-", "/", " ", "+", "*", "*", "#",
      " ", "r", "e", "t", "u", "r", "n", " ", "l", "e", "t", " ", "x", "+",
      "y", " ", "v", "a", "r", " ", "9", "9", " ", "i", "n", "s", "t", "a",
      "n", "c", "e", " ", "u", "s", "e", " ", "(", ")", "[", "]", "{", "}",
      " ", "/", "/", " ", "c", "o", "m", "m", "e", "n", "t">>

\* Further sources: the words and texts that the cases of the tokenizer turn on.
example_sources ==
    {<<"i", "n", "t", "e", "g", "e", "r">>,
     <<"f", "n", "x">>,
     <<"F", "n">>,
     <<"F", "N">>,
     <<"i", "8">>,
     <<"i", "8", "0">>,
     <<"i", "n", "t">>,
     <<"I", "n">>,
     <<"=", "=">>,
     <<"+", "+">>,
     <<"(", ")", "{", "}">>,
     <<"(", ")">>,
     <<"1", ".", "5">>,
     <<"0", "a">>,
     <<"9", "l", "i", "v", "e", "s">>,
     <<"_">>,
     <<"_", "0">>,
     <<"0", "_">>,
     <<"_", "_">>,
     <<"a", "_", "1">>,
     <<"@">>,
     <<"a", "@">>,
     <<"a", "/", "b">>,
     <<"1", "/", "2">>,
     <<"/", " ", "/">>,
     <<"/", "x">>,
     <<"x", "/">>,
     <<"x", " ", "/", "/">>,
     <<"a", " ", "/", "/", " ", "b">>,
     <<"a", " ", "/", "/", "b", "\n", "c">>,
     <<"/", "/", "/", "a", "\n", "b">>,
     <<"/", "/", "/", "/">>,
     <<"/", "/", "a", "/", "/", "/", "b", "\n", "f", "n", " ", "f">>,
     <<"/", "\t", "/">>,
     <<"\t", "f", "n", "\t", "f">>,
     <<"f", "n", " ", "f", " ", "f", "n", " ", "g">>,
     <<"f", "n", " ", "f", "(", "f", "n", " ", "g", ")">>,
     <<"f", "n", " ", "f", "n">>,
     <<"f", "n", " ", "0">>,
     <<"a", "\n", "\n">>,
     <<"a", " ">>,
     <<"f", "n", " ", "f", " ">>,
     <<"f", "n", " ", "f", "n", "x", " ", "F", "n", " ", "i", "8", " ",
       "i", "n", "t", "e", "g", "e", "r", " ", "i", "n", "t">>}

(***************************************************************************)
(* Inputs.                                                                 *)
(***************************************************************************)
\* The characters of the exhaustively enumerated sources: letters that spell
\* the reserved word fn, a digit, the underscore, the slash, another symbol,
\* and whitespace.
Alphabet == {"f", "n", "0", "_", "/", "=", " ", "\n"}

\* Every text over Alphabet of at most MaxLen characters, the empty one included.
short_sources == UNION {[1..k -> Alphabet] : k \in 0..MaxLen}

\* n copies of the character c.
Repeat(c, n) == [i \in 1..n |-> c]

\* lex.rs:39
guess_num_tokens_per_line == 20

\* lex.rs:41
max_num_tokens_factor == 5

\* Mutant of max_num_tokens: the line after the last newline is not counted.
max_num_tokens_without_last_line(code) ==
    (CountNewlines(code) * guess_num_tokens_per_line) * max_num_tokens_factor

\* lex.rs:38-41
max_num_tokens(code) ==
    ((CountNewlines(code) + 1) * guess_num_tokens_per_line) * max_num_tokens_factor

\* Sources of one-character words around the cap on the number of tokens:
\* without a newline and with one, of exactly the cap and of one more.
cap_sources ==
    LET cap0 == max_num_tokens(<<>>)
        cap1 == max_num_tokens(<<"\n">>)
    IN  {Repeat("=", cap0 - 1), Repeat("=", cap0), Repeat("=", cap0 + 1),
         <<"=", "\n">> \o Repeat("=", cap0),
         <<"=", "\n">> \o Repeat("=", cap1 - 1),
         <<"=", "\n">> \o Repeat("=", cap1)}

\* The sources of the repository's tests and benchmark.
test_sources ==
    {test_a, test_b, test_c, test_d, test_e, test_f, test_g, test_h, test_i,
     test_j, test_k, test_l, test_xb, bench_code}

\* The texts tokenize_string is called on.
Sources == short_sources \cup test_sources \cup example_sources \cup cap_sources

\* The token kinds of the sequences handed directly to parse_token.
direct_kinds == {"Fn", "IdxVal", "LParenthesis"}

\* The lexeme a token of the kind carries.
lexeme_of(kind) ==
    CASE kind = "Fn" -> <<"f", "n">>
      [] kind = "IdxVal" -> <<"g">>
      [] OTHER -> <<"(">>

\* The tokens of the kinds, laid out left to right with one space between:
\* the spans of the text that spells them.
RECURSIVE spanned_tokens(_, _)
spanned_tokens(kinds, start) ==
    IF kinds = <<>>
    THEN <<>>
    ELSE LET word == lexeme_of(Head(kinds))
         IN  <<Token(Head(kinds), SourceSpan(start, start + Len(word)), word)>>
             \o spanned_tokens(Tail(kinds), start + Len(word) + 1)

\* The token sequences parse_token is called on directly, the empty one included.
direct_tokens ==
    {spanned_tokens(kinds, 0) : kinds \in UNION {[1..k -> direct_kinds] : k \in 0..MaxTokens}}

\* The buffers a caller of tokenize_string_standard passes that are not
\* empty: the tokens an earlier call left in it.
stale_buffers == {spanned_tokens(<<"Fn", "IdxVal">>, 0)}

(***************************************************************************)
(* The error messages of the ensure! checks.                               *)
(***************************************************************************)
ErrEmptyCode == "code can not be empty string"
ErrTokenNone == "Token::None was found during lexing."
ErrMaxTokens == "can not store more than max_num_tokens as it may cause memory overflow"
ErrEmptyTokens == "can not parse an empty token list"
NoError == ""

(***************************************************************************)
(* State.                                                                  *)
(***************************************************************************)
VARIABLES
    source,       \* the text tokenize_string was called on
    code,         \* tokenize_string_standard: the text still to tokenize
    code_index,   \* tokenize_string_standard: the offset of code in source
    tokens,       \* tokenize_string_standard: the token buffer
    buffer,       \* the token buffer as the caller passed it
    lpc,          \* the tokenizer call: "idle", "loop", "ok", "err", "panic"
    lerr,         \* the message of the Err the tokenizer returned
    ptokens,      \* the tokens parse_token was called on
    xast,         \* parse_token: the working buffer
    ast,          \* parse_token: the committed nodes
    token_index,  \* parse_token: the cursor
    iterations,   \* parse_token: the iterations of the loop completed so far
    ppc,          \* the parser call: "idle", "loop", "ok", "err", "panic"
    perr          \* the message of the Err the parser returned

lexer_vars == <<source, code, code_index, tokens, buffer, lpc, lerr>>
parser_vars == <<ptokens, xast, ast, token_index, iterations, ppc, perr>>
vars == <<source, code, code_index, tokens, buffer, lpc, lerr,
          ptokens, xast, ast, token_index, iterations, ppc, perr>>

Init ==
    /\ source = <<>>
    /\ code = <<>>
    /\ code_index = 0
    /\ tokens = <<>>
    /\ buffer = <<>>
    /\ lpc = "idle"
    /\ lerr = NoError
    /\ ptokens = <<>>
    /\ xast = <<>>
    /\ ast = <<>>
    /\ token_index = 0
    /\ iterations = 0
    /\ ppc = "idle"
    /\ perr = NoError

(***************************************************************************)
(* The tokenizer (lex.rs).                                                 *)
(***************************************************************************)
\* Mutant of tokenize_string_standard: tokens.clear() is missing.
tokenize_string_standard_without_clear(code_arg, tokens_arg) ==
    /\ lpc = "idle"
    /\ ppc = "idle"
    /\ source' = code_arg
    /\ buffer' = tokens_arg
    /\ IF code_arg = <<>>
       THEN /\ lpc' = "err"
            /\ lerr' = ErrEmptyCode
       ELSE /\ lpc' = "loop"
            /\ lerr' = NoError
    /\ tokens' = tokens_arg
    /\ code' = code_arg
    /\ code_index' = 0
    /\ UNCHANGED parser_vars

\* lex.rs:30-47: the entry of tokenize_string_standard, up to the loop.
\* reserve() changes the capacity of the buffer only, which is not state here.
tokenize_string_standard(code_arg, tokens_arg) ==
    /\ lpc = "idle"
    /\ ppc = "idle"
    /\ source' = code_arg
    /\ buffer' = tokens_arg
    /\ IF code_arg = <<>>
       THEN /\ lpc' = "err"
            /\ lerr' = ErrEmptyCode
            /\ tokens' = tokens_arg
       ELSE /\ lpc' = "loop"
            /\ lerr' = NoError
            /\ tokens' = <<>>
    /\ code' = code_arg
    /\ code_index' = 0
    /\ UNCHANGED parser_vars

\* lex.rs:15-17
tokenize_string(code_arg) == tokenize_string_standard(code_arg, <<>>)

\* Mutant of loop_iteration: the check of the sentinel is missing.
loop_iteration_stores_sentinel(found) ==
    IF found.panic
    THEN /\ lpc' = "panic"
         /\ UNCHANGED <<code, code_index, tokens, lerr>>
    ELSE IF ~(Len(tokens) < max_num_tokens(source))
         THEN /\ lpc' = "err"
              /\ lerr' = ErrMaxTokens
              /\ UNCHANGED <<code, code_index, tokens>>
         ELSE /\ tokens' = Append(tokens, found.token)
              /\ code' = found.remaining_code
              /\ code_index' = found.new_code_index
              /\ UNCHANGED <<lpc, lerr>>

\* tokenize_string_standard called by a caller that passes a buffer of its
\* own, which still holds the tokens of an earlier call.
tokenize_with_buffer ==
    \E code_arg \in Sources, tokens_arg \in stale_buffers :
        tokenize_string_standard(code_arg, tokens_arg)

\* lex.rs:52-65: what one iteration of the loop does with the word found.
\* The checks run in the order of the code; the first that fails returns Err.
loop_iteration(found) ==
    IF found.panic
    THEN /\ lpc' = "panic"
         /\ UNCHANGED <<code, code_index, tokens, lerr>>
    ELSE IF is_none(found.token)
         THEN /\ lpc' = "err"
              /\ lerr' = ErrTokenNone
              /\ UNCHANGED <<code, code_index, tokens>>
         ELSE IF ~(Len(tokens) < max_num_tokens(source))
              THEN /\ lpc' = "err"
                   /\ lerr' = ErrMaxTokens
                   /\ UNCHANGED <<code, code_index, tokens>>
              ELSE /\ tokens' = Append(tokens, found.token)
                   /\ code' = found.remaining_code
                   /\ code_index' = found.new_code_index
                   /\ UNCHANGED <<lpc, lerr>>

\* lex.rs:50-66: one iteration of the loop.
tokenize_step ==
    /\ lpc = "loop"
    /\ code # <<>>
    /\ loop_iteration(tokenize_next_word(code, code_index))
    /\ UNCHANGED <<source, buffer, parser_vars>>

\* lex.rs:50 and 68: the loop ends on the empty text and Ok(tokens) is returned.
tokenize_return ==
    /\ lpc = "loop"
    /\ code = <<>>
    /\ lpc' = "ok"
    /\ UNCHANGED <<source, code, code_index, tokens, buffer, lerr, parser_vars>>

(***************************************************************************)
(* The parser (parse.rs).                                                  *)
(***************************************************************************)
\* Mutant of parse_token: the check for an empty token list is missing.
parse_token_unchecked(tokens_arg) ==
    /\ ppc = "idle"
    /\ ptokens' = tokens_arg
    /\ ppc' = "loop"
    /\ perr' = NoError
    /\ xast' = <<>>
    /\ ast' = <<>>
    /\ token_index' = 0
    /\ iterations' = 0
    /\ UNCHANGED lexer_vars

\* parse.rs:6-12: the entry of parse_token, up to the loop.
parse_token(tokens_arg) ==
    /\ ppc = "idle"
    /\ ptokens' = tokens_arg
    /\ IF tokens_arg = <<>>
       THEN /\ ppc' = "err"
            /\ perr' = ErrEmptyTokens
       ELSE /\ ppc' = "loop"
            /\ perr' = NoError
    /\ xast' = <<>>
    /\ ast' = <<>>
    /\ token_index' = 0
    /\ iterations' = 0
    /\ UNCHANGED lexer_vars

\* parse_token called on a token sequence of the caller's own: by a caller
\* that has tokenized nothing, or whose tokenize_string call on the empty
\* text returned the Err.
parse_direct ==
    /\ lpc = "idle" \/ (lpc = "err" /\ source = <<>>)
    /\ \E tokens_arg \in direct_tokens : parse_token(tokens_arg)

\* parse.rs:139-143 (test_parse_token): parse_token called on the tokens that
\* tokenize_string returned.
parse_tokenized ==
    /\ lpc = "ok"
    /\ parse_token(tokens)

\* Mutant of store_into_ast: xast.clear() is missing.
store_into_ast_without_clear(new_xast) ==
    /\ ast' = ast \o new_xast
    /\ xast' = new_xast

\* parse.rs:14-23: store_into_ast! appends the nodes of the buffer to ast
\* and leaves xast empty.
store_into_ast(new_xast) ==
    /\ ast' = ast \o new_xast
    /\ xast' = <<>>

\* parse.rs:31-38: the iteration of the loop on a Fn token.
parse_step_function ==
    /\ ppc = "loop"
    /\ token_index < Len(ptokens)
    /\ ptokens[token_index + 1].kind = "Fn"
    /\ LET r == parse_function(xast, ptokens, token_index)
       IN  IF r.panic
           THEN /\ ppc' = "panic"
                /\ UNCHANGED <<xast, ast, token_index, iterations>>
           ELSE /\ store_into_ast(r.ast)
                /\ token_index' = r.next_token_index
                /\ iterations' = iterations + 1
                /\ UNCHANGED ppc
    /\ UNCHANGED <<ptokens, perr, lexer_vars>>

\* Mutant of parse_step_other: a token that is not Fn commits a node.
parse_step_other_commits_node ==
    /\ ppc = "loop"
    /\ token_index < Len(ptokens)
    /\ ptokens[token_index + 1].kind # "Fn"
    /\ xast' = <<>>
    /\ ast' = Append(ast, AstNodeNone)
    /\ token_index' = token_index + 1
    /\ iterations' = iterations + 1
    /\ UNCHANGED <<ptokens, ppc, perr, lexer_vars>>

\* parse.rs:39-45: the iteration of the loop on any other token.
parse_step_other ==
    /\ ppc = "loop"
    /\ token_index < Len(ptokens)
    /\ ptokens[token_index + 1].kind # "Fn"
    /\ xast' = <<>>
    /\ token_index' = token_index + 1
    /\ iterations' = iterations + 1
    /\ UNCHANGED <<ptokens, ast, ppc, perr, lexer_vars>>

\* parse.rs:28 and 51: the loop ends past the last token and Ok(()) is returned.
parse_return ==
    /\ ppc = "loop"
    /\ ~(token_index < Len(ptokens))
    /\ ppc' = "ok"
    /\ UNCHANGED <<ptokens, xast, ast, token_index, iterations, perr, lexer_vars>>

Next ==
    \/ \E code_arg \in Sources : tokenize_string(code_arg)
    \/ tokenize_with_buffer
    \/ tokenize_step
    \/ tokenize_return
    \/ parse_direct
    \/ parse_tokenized
    \/ parse_step_function
    \/ parse_step_other
    \/ parse_return

Spec == Init /\ [][Next]_vars

\* parse.rs:28-47: parse_token is sequential code; once called, its loop
\* keeps running until it returns or faults.
FairSpec == Spec /\ WF_vars(parse_step_function \/ parse_step_other \/ parse_return)

(***************************************************************************)
(* Properties.                                                             *)
(***************************************************************************)
\* tokenize_string has returned Ok(tokens), and the tokens have not been
\* handed on to the parser yet (which leaves them as they are).
TokenizeReturnedOk == lpc = "ok" /\ ppc = "idle"

\* tokenize_string has returned or faulted, and the parser has not been called.
TokenizeOver == lpc \in {"ok", "err", "panic"} /\ ppc = "idle"

\* The text of source in the half-open range [start, end).
SourceSlice(start, end) == SubSeq(source, start + 1, end)

\* The offsets of source that no span of tokens covers.
UncoveredOffsets ==
    {p \in 0..(Len(source) - 1) :
        \A i \in 1..Len(tokens) : ~(tokens[i].span.start <= p /\ p < tokens[i].span.end)}

\* C1: in every Ok result of tokenize_string each token's lexeme is the text of
\* the source in its span, the span is not empty, the spans of consecutive
\* tokens do not overlap and increase, and every character of the source that
\* no span covers is a space, a tab or a newline.
C1_SpansReconstructSource ==
    TokenizeReturnedOk =>
        /\ \A i \in 1..Len(tokens) :
              /\ tokens[i].span.start < tokens[i].span.end
              /\ tokens[i].span.end <= Len(source)
              /\ tokens[i].lexeme = SourceSlice(tokens[i].span.start, tokens[i].span.end)
        /\ \A i \in 1..(Len(tokens) - 1) : tokens[i].span.end <= tokens[i + 1].span.start
        /\ \A p \in UncoveredOffsets : character_is_whitespace(source[p + 1])

\* An Ok result of several tokens, a comment among them, over a source with
\* skipped whitespace before a token that is not the first.
C1_Witness ==
    /\ lpc = "ok"
    /\ Len(tokens) >= 3
    /\ \E i \in 1..Len(tokens) : tokens[i].kind = "Comment"
    /\ \E i \in 2..Len(tokens) : tokens[i - 1].span.end < tokens[i].span.start

\* C2: tokenize_string returns Ok or Err on every source; it never faults.
C2_TokenizeNeverFaults == lpc # "panic"

\* The nodes parse_function commits for the Fn token at index i (1-based) of ts.
FunctionGroup(ts, i) ==
    <<AstNode("StartFunction", AstNodeData(DefaultSpan)),
      AstNode("Invisible", AstNodeData(DefaultSpan)),
      AstNode("Identifier", AstNodeData(ts[i + 1].span)),
      AstNodeNone, AstNodeNone, AstNodeNone,
      AstNode("EndFunction", AstNodeData(DefaultSpan))>>

\* One group per Fn token among the tokens of ts from index i on, in token order.
RECURSIVE FunctionGroups(_, _)
FunctionGroups(ts, i) ==
    IF i > Len(ts)
    THEN <<>>
    ELSE IF ts[i].kind = "Fn" /\ i < Len(ts)
         THEN FunctionGroup(ts, i) \o FunctionGroups(ts, i + 1)
         ELSE FunctionGroups(ts, i + 1)

NumFnTokens(ts) == Cardinality({i \in 1..Len(ts) : ts[i].kind = "Fn"})

\* C3: when parse_token completes on a non-empty token sequence the committed
\* AST is one 7-node group per Fn token, in token order, the Identifier of a
\* group carrying the span of the token after its Fn, and nothing else.
C3_AstIsOneGroupPerFn ==
    ppc = "ok" =>
        /\ ptokens # <<>>
        /\ ast = FunctionGroups(ptokens, 1)
        /\ Len(ast) = 7 * NumFnTokens(ptokens)
        /\ (ptokens = tokens /\ source = test_a) => Len(ast) = 7

\* A completed parse of a token sequence with two Fn tokens.
C3_Witness ==
    /\ ppc = "ok"
    /\ NumFnTokens(ptokens) = 2
    /\ Len(ast) = 14

\* C4: tokenize_string on the empty source returns the empty-input Err with
\* no token produced, and parse_token on the empty token sequence returns the
\* empty-input Err with no node committed, both before any scanning step.
C4_EmptyInputIsAnError ==
    /\ (lpc # "idle" /\ source = <<>> /\ buffer = <<>>) =>
          /\ lpc = "err"
          /\ lerr = ErrEmptyCode
          /\ tokens = <<>>
          /\ code_index = 0
    /\ (ppc # "idle" /\ ptokens = <<>>) =>
          /\ ppc = "err"
          /\ perr = ErrEmptyTokens
          /\ ast = <<>>
          /\ xast = <<>>
          /\ token_index = 0

\* Both calls were made on an empty input and both returned the Err.
C4_Witness ==
    /\ lpc = "err" /\ source = <<>> /\ lerr = ErrEmptyCode
    /\ ppc = "err" /\ ptokens = <<>> /\ perr = ErrEmptyTokens

\* The loop of the tokenizer is at its head with text left.
AtLoopHead == lpc = "loop" /\ code # <<>>

\* The text the next word is searched in: code without its leading whitespace.
PendingCode == truncate_leading_whitespace(code, code_index).code

\* The offset of PendingCode in the source.
PendingIndex == truncate_leading_whitespace(code, code_index).index

\* The word the next iteration classifies.
PendingWord == search_next_word(PendingCode, PendingIndex).word

\* The length of the text of s before its first newline.
LengthOfLine(s) == unwrap_or(Position(Newlines(s)), Len(s))

\* The next word is "/" and another "/" follows it immediately, and the cap
\* on the number of tokens leaves room for one more.
AtCommentStart ==
    /\ AtLoopHead
    /\ Len(PendingCode) >= 2
    /\ PendingCode[1] = "/"
    /\ PendingCode[2] = "/"
    /\ Len(tokens) < max_num_tokens(source)

\* The iteration emitted one comment or documentation token whose lexeme runs
\* from the first "/" to just before the next newline (to the end of the text
\* when there is none), and the text from that newline on remains.
CommentEmitted ==
    /\ lpc' = "loop"
    /\ Len(tokens') = Len(tokens) + 1
    /\ SubSeq(tokens', 1, Len(tokens)) = tokens
    /\ tokens'[Len(tokens')].kind \in {"Comment", "Documentation"}
    /\ tokens'[Len(tokens')].lexeme = SliceTo(PendingCode, LengthOfLine(PendingCode))
    /\ tokens'[Len(tokens')].span =
          SourceSpan(PendingIndex, PendingIndex + LengthOfLine(PendingCode))
    /\ code' = SliceFrom(PendingCode, LengthOfLine(PendingCode))
    /\ code_index' = PendingIndex + LengthOfLine(PendingCode)

\* C5: when the word "/" is immediately followed by another "/" the tokenizer
\* emits exactly one comment-class token from the first "/" to just before the
\* next newline, or to the end of the input, emits nothing for the text inside
\* the comment, and goes on with the text from the newline.
C5_CommentRunsToEndOfLine == [][AtCommentStart => CommentEmitted]_vars

\* A word of digits and underscores only.
IntegerShaped(word) ==
    \A i \in 1..Len(word) :
        word[i] \in {"0", "1", "2", "3", "4", "5", "6", "7", "8", "9", "_"}

\* The kinds of the tokens of ts, in order.
Kinds(ts) == [i \in 1..Len(ts) |-> ts[i].kind]

\* C6: a word made only of digits and "_" is classified IntVal if and only if
\* its first character is not "_", and IdxVal when it is; so the words of
\* "0 _ _0 0_ 000_000_000" and "123_456_789" are classified as the tests expect.
C6_IntegerUnlessLeadingUnderscore ==
    /\ (AtLoopHead /\ IntegerShaped(PendingWord)) =>
          LET found == tokenize_next_word(code, code_index)
          IN  /\ ~found.panic
              /\ found.token.kind = (IF PendingWord[1] # "_" THEN "IntVal" ELSE "IdxVal")
              /\ found.token.lexeme = PendingWord
    /\ \A i \in 1..Len(tokens) :
          IntegerShaped(tokens[i].lexeme) =>
              (tokens[i].kind = "IntVal" <=> tokens[i].lexeme[1] # "_")
    /\ (lpc = "ok" /\ source = test_k) =>
          Kinds(tokens) = <<"IntVal", "IdxVal", "IdxVal", "IntVal", "IntVal">>
    /\ (lpc = "ok" /\ source = test_l) => Kinds(tokens) = <<"IntVal">>

\* Both classes of such words were emitted: an integer with an underscore in it
\* and an identifier of a leading underscore and a digit.
C6_Witness ==
    /\ \E i \in 1..Len(tokens) :
          /\ tokens[i].kind = "IntVal"
          /\ \E j \in 2..Len(tokens[i].lexeme) : tokens[i].lexeme[j] = "_"
    /\ \E i \in 1..Len(tokens) :
          /\ tokens[i].kind = "IdxVal"
          /\ tokens[i].lexeme = <<"_", "0">>

\* The token kinds of the reserved words.
ReservedKinds == {e[2] : e \in ReservedWords}

\* The source is the one word, and the call of tokenize_string on it is over.
Tokenized(word) == source = word /\ lpc \notin {"idle", "loop"}

\* The call returned Ok with one token of the kind.
OkOneToken(kind) == lpc = "ok" /\ Kinds(tokens) = <<kind>>

\* C7: a word is classified as a reserved word if and only if it equals an
\* entry of the table character for character, with the kind of that entry;
\* the later integer and identifier tests never override a match, and a word
\* that only contains or extends an entry, or differs in case, is an identifier.
C7_ReservedWordsMatchExactly ==
    /\ (AtLoopHead /\ PendingWord # <<"/">>) =>
          LET found == tokenize_next_word(code, code_index)
          IN  /\ ~found.panic
              /\ IF \E e \in ReservedWords : e[1] = PendingWord
                 THEN \E e \in ReservedWords :
                         /\ e[1] = PendingWord
                         /\ found.token.kind = e[2]
                 ELSE found.token.kind \in {"IntVal", "IdxVal", "None"}
    /\ \A i \in 1..Len(tokens) :
          /\ tokens[i].kind \in ReservedKinds <=> tokens[i].lexeme \in ReservedWordSet
          /\ tokens[i].kind \in ReservedKinds =>
                <<tokens[i].lexeme, tokens[i].kind>> \in ReservedWords
    /\ Tokenized(<<"i", "n", "t">>) => OkOneToken("Int")
    /\ Tokenized(<<"i", "n", "t", "e", "g", "e", "r">>) => OkOneToken("IdxVal")
    /\ Tokenized(<<"f", "n">>) => OkOneToken("Fn")
    /\ Tokenized(<<"f", "n", "x">>) => OkOneToken("IdxVal")
    /\ Tokenized(<<"F", "n">>) => OkOneToken("IdxVal")
    /\ Tokenized(<<"i", "8">>) => OkOneToken("I8")

\* A reserved word and a word that extends a reserved word were both emitted.
C7_Witness ==
    /\ \E i \in 1..Len(tokens) : tokens[i].kind = "Fn" /\ tokens[i].lexeme = <<"f", "n">>
    /\ \E i \in 1..Len(tokens) :
          /\ tokens[i].kind = "IdxVal"
          /\ Len(tokens[i].lexeme) > 2
          /\ SubSeq(tokens[i].lexeme, 1, 2) = <<"f", "n">>

\* token.rs:22-45: the symbol variants of Token.
SymbolKinds ==
    {"Semicolon", "Colon", "Comma", "Dot", "Equal", "Plus", "Minus", "Star", "Slash",
     "LParenthesis", "RParenthesis", "LBracket", "RBracket", "LAngle", "RAngle",
     "LBrace", "RBrace", "Exclamation", "Question", "Dollar", "Hash"}

\* The characters of the symbols.
SymbolCharacters ==
    {";", ":", ",", ".", "=", "+", "-", "*", "/", "(", ")", "[", "]", "<", ">",
     "{", "}", "!", "?", "$", "#"}

\* The offset p of the source lies in the span of a comment-class token.
InComment(p) ==
    \E i \in 1..Len(tokens) :
        /\ tokens[i].kind \in {"Comment", "Documentation"}
        /\ tokens[i].span.start <= p
        /\ p < tokens[i].span.end

\* The call returned Ok with the tokens of the kinds, one character each, their
\* spans adjacent from offset 0.
OkAdjacentSymbols(kinds) ==
    /\ lpc = "ok"
    /\ Kinds(tokens) = kinds
    /\ \A i \in 1..Len(tokens) :
          /\ tokens[i].span = SourceSpan(i - 1, i)
          /\ tokens[i].lexeme = <<source[i]>>

ClaimedCap(text) == 5 * 20 * (CountNewlines(text) + 1)

\* The number of tokens the text yields when no cap is applied: the words are
\* tokenized one after the other; -1 when a word is left unclassified or the
\* tokenizer faults.
RECURSIVE UncappedTokenCount(_, _, _)
UncappedTokenCount(text, index, count) ==
    IF text = <<>>
    THEN count
    ELSE LET found == tokenize_next_word(text, index)
         IN  IF found.panic
             THEN -1
             ELSE IF is_none(found.token)
                  THEN -1
                  ELSE UncappedTokenCount(found.remaining_code, found.new_code_index,
                                          count + 1)

\* C9: with cap = 5 * 20 * (newlines + 1), an Ok result has at most cap tokens;
\* a source of more than cap tokens fails with the too-many-tokens Err, and a
\* source of at most cap tokens, exactly cap included, succeeds with all of them.
C9_TokenCap ==
    /\ lpc \in {"loop", "ok"} => Len(tokens) <= ClaimedCap(source)
    /\ (TokenizeOver /\ source # <<>>) =>
          LET count == UncappedTokenCount(source, 0, 0)
          IN  /\ count > ClaimedCap(source) =>
                    /\ lpc = "err"
                    /\ lerr = ErrMaxTokens
                    /\ Len(tokens) = ClaimedCap(source)
              /\ (count >= 0 /\ count <= ClaimedCap(source)) =>
                    /\ lpc = "ok"
                    /\ Len(tokens) = count
              /\ (lpc = "err" /\ lerr = ErrMaxTokens) => count > ClaimedCap(source)

\* The call on a two-line source of one token more than its cap failed.
C9_Witness ==
    /\ lpc = "err"
    /\ lerr = ErrMaxTokens
    /\ CountNewlines(source) = 1
    /\ Len(tokens) = 200

\* No token stored in the buffer is the sentinel.
NoSentinelStored == \A i \in 1..Len(tokens) : ~is_none(tokens[i])

\* The next call of tokenize_next_word returns the sentinel.
SentinelPending ==
    /\ AtLoopHead
    /\ ~tokenize_next_word(code, code_index).panic
    /\ is_none(tokenize_next_word(code, code_index).token)

\* C10: no token of an Ok result, nor of the buffer at any time, is the
\* sentinel Token::None: when tokenize_next_word yields the sentinel the call
\* fails with the Err and the buffer is left as it was.
C10_SentinelNeverReturned ==
    [][/\ NoSentinelStored'
       /\ SentinelPending => (lpc' = "err" /\ lerr' = ErrTokenNone /\ tokens' = tokens)
      ]_vars

\* The call failed on a sentinel after it had stored tokens.
C10_Witness ==
    /\ lpc = "err"
    /\ lerr = ErrTokenNone
    /\ Len(tokens) >= 1
    /\ is_none(tokenize_next_word(code, code_index).token)

\* The characters of the tokenizer's classes: letters, digits, the underscore,
\* the symbols of the table, and the whitespace it skips.
InCharacterClasses(c) ==
    \/ c \in Digits \cup LowerCase \cup UpperCase \cup {"_"}
    \/ c \in SymbolCharacters
    \/ c \in {" ", "\t", "\n"}

\* C11: on a non-empty source made only of letters, digits, "_", the symbols
\* of the table and whitespace, tokenize_string never fails because a word
\* was left unclassified; whitespace yields neither a token nor an error
\* wherever it occurs, after the last word and as the whole source included.
C11_UnclassifiedUnreachable ==
    (lpc = "err" /\ lerr = ErrTokenNone) =>
        \E i \in 1..Len(source) : ~InCharacterClasses(source[i])

\* What the caller of the tokenizer has got, once the call is over.
TokenizeOutcome ==
    IF lpc = "ok"
    THEN [result |-> "Ok", tokens |-> tokens]
    ELSE IF lpc = "err"
         THEN [result |-> "Err", message |-> lerr]
         ELSE [result |-> "fault"]

\* What tokenize_string yields from the text at offset index on, toks being
\* the tokens of the text before it and cap the cap of the whole source.
RECURSIVE TokenizeStringFrom(_, _, _, _)
TokenizeStringFrom(text, index, toks, cap) ==
    IF text = <<>>
    THEN [result |-> "Ok", tokens |-> toks]
    ELSE LET found == tokenize_next_word(text, index)
         IN  IF found.panic
             THEN [result |-> "fault"]
             ELSE IF is_none(found.token)
                  THEN [result |-> "Err", message |-> ErrTokenNone]
                  ELSE IF Len(toks) >= cap
                       THEN [result |-> "Err", message |-> ErrMaxTokens]
                       ELSE TokenizeStringFrom(found.remaining_code,
                                               found.new_code_index,
                                               Append(toks, found.token), cap)

\* What tokenize_string(text) yields: a run on a buffer that starts empty.
TokenizeStringOf(text) ==
    IF text = <<>>
    THEN [result |-> "Err", message |-> ErrEmptyCode]
    ELSE TokenizeStringFrom(text, 0, <<>>, ClaimedCap(text))

\* C12: the outcome of tokenize_string_standard(code, tokens) does not depend
\* on what the buffer held: it is the outcome of tokenize_string(code), the
\* same tokens or the same Err; tokens the buffer held before the call are in
\* no result and do not count toward the cap.
C12_BufferContentsIrrelevant ==
    /\ TokenizeOver => TokenizeOutcome = TokenizeStringOf(source)
    /\ lpc = "loop" => Len(tokens) <= code_index

\* A call on a buffer that held tokens returned Ok with exactly as many tokens
\* as the cap allows.
C12_Witness ==
    /\ TokenizeReturnedOk
    /\ buffer # <<>>
    /\ Len(tokens) = ClaimedCap(source)

\* parse_token has returned or faulted.
ParseOver == ppc \in {"ok", "err", "panic"}

\* Some Fn token of ts is not immediately followed by an IdxVal token: it is
\* the last token, or the token after it is of another kind.
FnWithoutIdentifier(ts) ==
    \E i \in 1..Len(ts) :
        /\ ts[i].kind = "Fn"
        /\ (i = Len(ts) \/ ts[i + 1].kind # "IdxVal")

\* C13: on a non-empty token sequence parse_token faults exactly when some Fn
\* token is not immediately followed by an IdxVal token, a Fn that is the last
\* token included; on every other non-empty sequence it returns Ok, and it
\* never returns an Err.
C13_FaultIffFnWithoutIdentifier ==
    (ParseOver /\ ptokens # <<>>) =>
        /\ ppc # "err"
        /\ ppc = "panic" <=> FnWithoutIdentifier(ptokens)
        /\ ppc = "ok" <=> ~FnWithoutIdentifier(ptokens)

\* The parser faulted on a Fn that is the last token, after it had committed
\* an earlier function.
C13_Witness ==
    /\ ppc = "panic"
    /\ ptokens[Len(ptokens)].kind = "Fn"
    /\ token_index = Len(ptokens) - 1
    /\ Len(ast) = 7

\* At a loop head the offset and the remaining text add up to the source, and
\* no more iterations have stored a token than characters have been scanned.
ScanAccountsForSource ==
    lpc = "loop" =>
        /\ code_index + Len(code) = Len(source)
        /\ code = SubSeq(source, code_index + 1, Len(source))
        /\ Len(tokens) <= code_index

\* An iteration of the loop that did not end in an Err or a fault.
IterationCompleted == AtLoopHead /\ lpc' = "loop" /\ tokens' # tokens

\* C14: every iteration of the tokenizer's loop that does not end in an error
\* leaves the remaining text strictly shorter and code_index strictly larger,
\* and code_index + length(remaining text) = length(source) at every loop
\* head; so the loop makes at most length(source) iterations.
C14_EveryIterationAdvances ==
    [][/\ ScanAccountsForSource'
       /\ IterationCompleted =>
             /\ Len(code') < Len(code)
             /\ code_index' > code_index
             /\ Len(tokens') = Len(tokens) + 1
      ]_vars

\* A loop head after two iterations that skipped whitespace, with text left.
C14_Witness ==
    /\ AtLoopHead
    /\ Len(tokens) = 2
    /\ code_index > tokens[1].span.end - tokens[1].span.start
                    + tokens[2].span.end - tokens[2].span.start

\* The number of "/" characters the text starts with.
LeadingSlashes(text) ==
    unwrap_or(Position([i \in 1..Len(text) |-> text[i] # "/"]), Len(text))

\* What the claim says the step on a "/" word yields, given the number of
\* adjacent slashes: the kind of the token, and for a lone "/" the one
\* character consumed.
SlashDisambiguated(found) ==
    /\ ~found.panic
    /\ LeadingSlashes(PendingCode) >= 3 => found.token.kind = "Documentation"
    /\ LeadingSlashes(PendingCode) = 2 => found.token.kind = "Comment"
    /\ LeadingSlashes(PendingCode) = 1 =>
          /\ found.token = Token("Slash", SourceSpan(PendingIndex, PendingIndex + 1), <<"/">>)
          /\ found.remaining_code = SliceFrom(PendingCode, 1)
          /\ found.new_code_index = PendingIndex + 1

\* C15: what a "/" word becomes depends only on the characters directly
\* adjacent to it: three or more adjacent "/" start a Documentation token,
\* exactly two a Comment token, and a "/" not directly followed by "/" ("/ /"
\* included) is a Slash token of one character that consumes nothing else.
C15_SlashDisambiguation ==
    (AtLoopHead /\ PendingCode[1] = "/") =>
        SlashDisambiguated(tokenize_next_word(code, code_index))

\* The kinds of the nodes of a function group.
GroupNodes ==
    <<"StartFunction", "Invisible", "Identifier", "None", "None", "None", "EndFunction">>

\* The nodes are whole function groups, one after the other.
WholeGroups(nodes) ==
    /\ Len(nodes) % 7 = 0
    /\ \A i \in 1..Len(nodes) : nodes[i].node = GroupNodes[((i - 1) % 7) + 1]

\* The loop of the parser is at its head with a token left (Scanning).
AtParseLoopHead == ppc = "loop" /\ token_index < Len(ptokens)

\* C16: the working buffer xast is empty at every loop head of parse_token,
\* the committed ast changes only by the append of one whole function group
\* when the parse of a function finishes, and it never holds a part of a group.
C16_OnlyWholeGroupsCommitted ==
    [][/\ ppc' = "loop" => xast' = <<>>
       /\ WholeGroups(ast')
       /\ ast' # ast =>
             /\ AtParseLoopHead
             /\ ptokens[token_index + 1].kind = "Fn"
             /\ ast' = ast \o FunctionGroup(ptokens, token_index + 1)
      ]_vars

\* A loop head with tokens left, after two functions were committed.
C16_Witness ==
    /\ AtParseLoopHead
    /\ Len(ast) = 14
    /\ xast = <<>>

\* The node is a bracket of a function.
IsFunctionBracket(n) == n.node \in {"StartFunction", "EndFunction"}

\* The brackets of the committed nodes, in order.
FunctionBrackets == SelectSeq(ast, IsFunctionBracket)

\* The nesting depth after the first k brackets: starts less ends.
Depth(k) ==
    Cardinality({i \in 1..k : FunctionBrackets[i].node = "StartFunction"})
    - Cardinality({i \in 1..k : FunctionBrackets[i].node = "EndFunction"})

\* C17: the committed AST is bracket-balanced and flat in every state:
\* StartFunction and EndFunction alternate, StartFunction first, the depth is
\* never above 1, and there are as many of the one as of the other, also when
\* a Fn token stands in the text of another function's body.
C17_BracketsBalancedAndFlat ==
    /\ \A k \in 1..Len(FunctionBrackets) :
          /\ FunctionBrackets[k].node =
                (IF k % 2 = 1 THEN "StartFunction" ELSE "EndFunction")
          /\ Depth(k) \in {0, 1}
    /\ Depth(Len(FunctionBrackets)) = 0

\* A parse that committed two functions, the second Fn standing right after
\* the opening parenthesis of the first function's parameter list.
C17_Witness ==
    /\ ppc = "ok"
    /\ Len(FunctionBrackets) = 4
    /\ \E i \in 3..(Len(ptokens) - 1) :
          /\ ptokens[i - 2].kind = "Fn"
          /\ ptokens[i].kind = "LParenthesis"
          /\ ptokens[i + 1].kind = "Fn"

\* The parser's own state changes in the step.
ParserMoves == parser_vars' # parser_vars

\* Scanning --Fn--> InFunction --> Scanning: the function parse started at the
\* Fn token under the cursor completes and leaves the cursor two tokens on.
FnTransition ==
    /\ token_index < Len(ptokens)
    /\ ptokens[token_index + 1].kind = "Fn"
    /\ ppc' = "loop"
    /\ token_index' = token_index + 2
    /\ iterations' = iterations + 1

\* The function parse started at the Fn token under the cursor faults.
FnFault ==
    /\ token_index < Len(ptokens)
    /\ ptokens[token_index + 1].kind = "Fn"
    /\ ppc' = "panic"
    /\ UNCHANGED <<token_index, iterations>>

\* Scanning --other--> Scanning: the cursor moves one token on.
OtherTransition ==
    /\ token_index < Len(ptokens)
    /\ ptokens[token_index + 1].kind # "Fn"
    /\ ppc' = "loop"
    /\ token_index' = token_index + 1
    /\ iterations' = iterations + 1

\* The loop ends with the cursor on the token count.
LoopExit ==
    /\ token_index = Len(ptokens)
    /\ ppc' = "ok"
    /\ UNCHANGED <<token_index, iterations>>

\* C18: every iteration of the parser's loop moves the cursor on, by exactly
\* two from a Fn token whose function parse completes and by exactly one from
\* any other token, and the loop has no other transition; the cursor never
\* exceeds the token count, no more iterations complete than there are
\* tokens, and the loop, once entered, comes to its end.
C18_CursorAdvancesAndLoopEnds ==
    /\ [][(ppc = "loop" /\ ParserMoves) =>
             (FnTransition \/ FnFault \/ OtherTransition \/ LoopExit)]_vars
    /\ [](token_index <= Len(ptokens) /\ iterations <= Len(ptokens))
    /\ (ppc = "loop") ~> (ppc \in {"ok", "panic"})

\* parse_token returned after a function parse that started at the second
\* token: the name was the last token, and the cursor ended on the count.
C18_Witness ==
    /\ ppc = "ok"
    /\ Len(ptokens) = 3
    /\ ptokens[2].kind = "Fn"
    /\ token_index = 3
    /\ iterations = 2

\* The Fn tokens among the tokens the cursor has passed.
FnTokensPassed == {i \in 1..token_index : ptokens[i].kind = "Fn"}

\* C19: a step of the parser's loop on a token that is not Fn leaves the
\* committed nodes as they are, leaves the working buffer empty and moves the
\* cursor on by exactly one; the committed nodes are seven for each Fn token
\* passed, and no other token passed has added any.
C19_OtherTokenLeavesAst ==
    /\ [][(/\ ppc = "loop"
           /\ ParserMoves
           /\ token_index < Len(ptokens)
           /\ ptokens[token_index + 1].kind # "Fn") =>
             (/\ ast' = ast
              /\ xast' = <<>>
              /\ token_index' = token_index + 1)]_vars
    /\ [](ppc \in {"loop", "ok"} => Len(ast) = 7 * Cardinality(FnTokensPassed))

\* The step on the opening parenthesis of a parameter list has been taken:
\* the nodes of the function before it are all that is committed.
C19_Witness ==
    /\ ppc = "loop"
    /\ token_index >= 3
    /\ ptokens[token_index - 2].kind = "Fn"
    /\ ptokens[token_index].kind = "LParenthesis"
    /\ Len(ast) = 7
    /\ xast = <<>>

\* C20: every IdxVal token of a tokenize_string result has a lexeme whose
\* first character is a letter or "_": a word that starts with a digit, such
\* as "0a" or "9lives", is not returned as an identifier.
C20_IdentifierStartsWithoutDigit ==
    TokenizeReturnedOk =>
        \A i \in 1..Len(tokens) :
            tokens[i].kind = "IdxVal" =>
                tokens[i].lexeme[1] \in (LowerCase \union UpperCase \union {"_"})

\* The token kinds of token.rs that no classification of a word arrives at.
UnemittedKinds == {"Unit", "FltVal", "StrVal"}

====
